---- MODULE Spec2Model ----
(***************************************************************************)
(* Model of update_roster.py: the ZOOM attendance log is matched against   *)
(* the Sabacloud roster by fuzzy name matching, unmatched attendees are    *)
(* written to a report, and every roster row gets an attendance status.    *)
(*                                                                         *)
(* A str is a sequence of code points (97 = "a", 98 = "b", 99 = "c",       *)
(* 65 = "A", 32 = " ").  A pandas cell that is empty in the CSV holds the  *)
(* float nan; a duration cell may also hold text float() cannot parse.     *)
(* rapidfuzz is modelled as its 3.x releases behave: extractOne applies no *)
(* processor, so names are scored as typed, letter case included.          *)
(***************************************************************************)
EXTENDS Integers, Sequences, FiniteSets

VARIABLES
    zoom_df,             \* rows of the ZOOM CSV: [name, duration], in file order
    roster_rows,         \* rows of the roster CSV: [first, last]
    threshold,           \* fuzzy threshold handed to process_attendance
    pc,                  \* position of main(): load, process, update, done, failed
    error,               \* the exception that ended the run ("" while none)
    full_name,           \* roster_df['Full Name']
    status,              \* roster_df['Attendance Status']
    i,                   \* number of zoom rows the loop of process_attendance has consumed
    matched,             \* local `matched` of the last loop iteration
    matched_duration,    \* dict roster name -> duration
    unmatched_attendees, \* list of ZOOM names with no match
    report,              \* attendee lines of the unmatched file
    prev_status,         \* status column written by the previous run
    prev_report          \* attendee lines written by the previous run

vars == <<zoom_df, roster_rows, threshold, pc, error, full_name, status, i,
          matched, matched_duration, unmatched_attendees, report,
          prev_status, prev_report>>

(***************************************************************************)
(* Bounds of the model.                                                    *)
(***************************************************************************)
MaxZoom == 2
MaxRoster == 2

(***************************************************************************)
(* Configuration / constants of the script.                                *)
(***************************************************************************)
FUZZY_THRESHOLD == 55
ATTENDANCE_THRESHOLD == 10

(***************************************************************************)
(* Values that are not strings or numbers.                                 *)
(***************************************************************************)
\* float nan in a name column (no str holds code point -1)
NaN == <<-1>>
\* Python None (no str holds code point -2)
None == <<-2>>
\* float nan in the duration column; durations of the log are >= 0
NanDuration == 0 - 1
\* text in the duration column that float() cannot parse
BadText == 0 - 2
\* result of a float() call that raised ValueError
Raised == 0 - 3

is_none(s) == s = None \/ s = NaN

(***************************************************************************)
(* str helpers: comparison, lower(), split(), sorted(), " ".join()         *)
(***************************************************************************)
\* s < t for Python str: lexicographic by code point, a proper prefix is smaller
RECURSIVE StrLess(_, _)
StrLess(s, t) ==
    IF t = <<>> THEN FALSE
    ELSE IF s = <<>> THEN TRUE
    ELSE IF Head(s) # Head(t) THEN Head(s) < Head(t)
    ELSE StrLess(Tail(s), Tail(t))

LowerChar(c) == IF c >= 65 /\ c <= 90 THEN c + 32 ELSE c

str_lower(s) == [k \in 1..Len(s) |-> LowerChar(s[k])]

\* s.split(): maximal runs of non-whitespace
RECURSIVE SplitFrom(_, _, _)
SplitFrom(s, k, cur) ==
    IF k > Len(s) THEN (IF cur = <<>> THEN <<>> ELSE <<cur>>)
    ELSE IF s[k] = 32
         THEN (IF cur = <<>> THEN <<>> ELSE <<cur>>) \o SplitFrom(s, k + 1, <<>>)
         ELSE SplitFrom(s, k + 1, Append(cur, s[k]))

split_sequence(s) == SplitFrom(s, 1, <<>>)

\* sorted(tokens): insertion of x behind every element that is not greater
RECURSIVE InsertPlain(_, _)
InsertPlain(sorted, x) ==
    IF sorted = <<>> THEN <<x>>
    ELSE IF StrLess(x, Head(sorted)) THEN <<x>> \o sorted
    ELSE <<Head(sorted)>> \o InsertPlain(Tail(sorted), x)

RECURSIVE SortedPlain(_)
SortedPlain(xs) ==
    IF xs = <<>> THEN <<>>
    ELSE InsertPlain(SortedPlain(SubSeq(xs, 1, Len(xs) - 1)), xs[Len(xs)])

RECURSIVE join_splitted_sequence(_)
join_splitted_sequence(tokens) ==
    IF tokens = <<>> THEN <<>>
    ELSE IF Len(tokens) = 1 THEN Head(tokens)
    ELSE Head(tokens) \o <<32>> \o join_splitted_sequence(Tail(tokens))

(***************************************************************************)
(* Inputs: the cells the two CSV files may hold.                           *)
(***************************************************************************)
\* "a"
FirstNames == {<<97>>}
\* "b", "c", or an empty cell
LastNames == {<<98>>, <<99>>, NaN}
RosterRow == [first : FirstNames, last : LastNames]

\* "b a", "a", "A"
ZoomNames == {<<98, 32, 97>>, <<97>>, <<65>>}
\* a duration at the threshold, one below it, or an empty cell
DurationCells == {ATTENDANCE_THRESHOLD, ATTENDANCE_THRESHOLD - 1, NanDuration}
\* the rows of the log; one more row holds text in its duration cell
ZoomRow ==
    [name : ZoomNames, duration : DurationCells]
        \cup {[name |-> <<98, 32, 97>>, duration |-> BadText]}

\* thresholds handed to process_attendance: the names above score 0, 50, 66.7
\* or 100, so 50 is a score met exactly and 51 accepts what FUZZY_THRESHOLD does
MatchThresholds == {FUZZY_THRESHOLD - 5, FUZZY_THRESHOLD - 4}

SeqsUpTo(S, n) == UNION {[1..m -> S] : m \in 0..n}

\* the orderings of a list of rows
Reorderings(xs) ==
    {ys \in [1..Len(xs) -> {xs[k] : k \in 1..Len(xs)}] :
        \E f \in [1..Len(xs) -> 1..Len(xs)] :
            /\ \A a, b \in 1..Len(xs) : a # b => f[a] # f[b]
            /\ \A a \in 1..Len(xs) : ys[a] = xs[f[a]]}

(***************************************************************************)
(* rapidfuzz: fuzz.token_sort_ratio and process.extractOne.  A score is    *)
(* the float 100 * (1 - dist / (len1 + len2)); it is kept as the exact     *)
(* fraction num / den so that comparisons with a threshold are exact.      *)
(***************************************************************************)
Max(a, b) == IF a >= b THEN a ELSE b

\* length of the longest common subsequence of s and t
RECURSIVE LCS(_, _)
LCS(s, t) ==
    IF s = <<>> \/ t = <<>> THEN 0
    ELSE IF Head(s) = Head(t) THEN 1 + LCS(Tail(s), Tail(t))
    ELSE Max(LCS(Tail(s), t), LCS(s, Tail(t)))

\* Indel distance: insertions and deletions only
IndelDistance(s, t) == Len(s) + Len(t) - 2 * LCS(s, t)

ZeroScore == [num |-> 0, den |-> 1]

ScoreGE(a, b) == a.num * b.den >= b.num * a.den
ScoreGT(a, b) == a.num * b.den > b.num * a.den
ScoreEQ(a, b) == a.num * b.den = b.num * a.den
\* score >= t for an integer t
ScoreAtLeast(a, t) == a.num >= t * a.den

\* fuzz.ratio: 100 * Indel.normalized_similarity
ratio(s, t) ==
    LET maximum == Len(s) + Len(t)
    IN  IF maximum = 0 THEN [num |-> 100, den |-> 1]
        ELSE [num |-> 100 * (maximum - IndelDistance(s, t)), den |-> maximum]

\* fuzz.token_sort_ratio with processor=None: tokens sorted, no case folding
token_sort_ratio(s1, s2) ==
    IF is_none(s1) \/ is_none(s2) THEN ZeroScore
    ELSE ratio(join_splitted_sequence(SortedPlain(split_sequence(s1))),
               join_splitted_sequence(SortedPlain(split_sequence(s2))))

\* token_sort_ratio of every ZOOM name against every roster name, computed once
ScoreTable ==
    [q \in ZoomNames |->
        [c \in {f \o <<32>> \o l : f \in FirstNames, l \in LastNames \ {NaN}} |->
            token_sort_ratio(q, c)]]

\* the scorer called with score_cutoff: a score below the cutoff comes back as 0
ScoreWithCutoff(s1, s2, cutoff) ==
    LET sc == ScoreTable[s1][s2]
    IN  IF ScoreGE(sc, cutoff) THEN sc ELSE ZeroScore

NoResult == [choice |-> None, score |-> ZeroScore, key |-> 0]

\* ExtractLoop with `score >= result[1]`: the last of equally scoring choices wins
RECURSIVE ExtractLoopLastWins(_, _, _, _, _)
ExtractLoopLastWins(query, choices, k, cutoff, result) ==
    IF k > Len(choices) THEN result
    ELSE IF is_none(choices[k])
         THEN ExtractLoopLastWins(query, choices, k + 1, cutoff, result)
    ELSE LET score == ScoreWithCutoff(query, choices[k], cutoff)
             take  == ScoreGE(score, cutoff)
                      /\ (result = NoResult \/ ScoreGE(score, result.score))
             res2  == IF take THEN [choice |-> choices[k], score |-> score, key |-> k]
                      ELSE result
             cut2  == IF take THEN score ELSE cutoff
         IN  IF ScoreEQ(score, [num |-> 100, den |-> 1]) THEN res2
             ELSE ExtractLoopLastWins(query, choices, k + 1, cut2, res2)

\* the loop of process.extractOne over choices[k..]: nan/None choices are
\* skipped, a choice replaces the result only when it scores strictly higher,
\* and the scan stops at the optimal score 100
RECURSIVE ExtractLoop(_, _, _, _, _)
ExtractLoop(query, choices, k, cutoff, result) ==
    IF k > Len(choices) THEN result
    ELSE IF is_none(choices[k]) THEN ExtractLoop(query, choices, k + 1, cutoff, result)
    ELSE LET score == ScoreWithCutoff(query, choices[k], cutoff)
             take  == ScoreGE(score, cutoff)
                      /\ (result = NoResult \/ ScoreGT(score, result.score))
             res2  == IF take THEN [choice |-> choices[k], score |-> score, key |-> k]
                      ELSE result
             cut2  == IF take THEN score ELSE cutoff
         IN  IF ScoreEQ(score, [num |-> 100, den |-> 1]) THEN res2
             ELSE ExtractLoop(query, choices, k + 1, cut2, res2)

\* process.extractOne(query, choices, scorer=fuzz.token_sort_ratio);
\* NoResult stands for the None it returns when nothing was scored
extractOne(query, choices) ==
    IF is_none(query) THEN NoResult
    ELSE ExtractLoop(query, choices, 1, ZeroScore, NoResult)

(***************************************************************************)
(* match_student                                                           *)
(***************************************************************************)
\* match_student with `score > threshold`
match_student_strict(zoom_name, roster_names, t) ==
    LET r == extractOne(zoom_name, roster_names)
    IN  IF r = NoResult THEN [raised |-> TRUE, value |-> None]
        ELSE [raised |-> FALSE,
              value  |-> IF r.score.num > t * r.score.den THEN r.choice ELSE None]

\* `match, score, _ = process.extractOne(...)` raises TypeError when extractOne
\* returns None; otherwise `match if score >= threshold else None`
match_student(zoom_name, roster_names, t) ==
    LET r == extractOne(zoom_name, roster_names)
    IN  IF r = NoResult THEN [raised |-> TRUE, value |-> None]
        ELSE [raised |-> FALSE,
              value  |-> IF ScoreAtLeast(r.score, t) THEN r.choice ELSE None]

(***************************************************************************)
(* float arithmetic on the duration column                                 *)
(***************************************************************************)
\* float(x): nan stays nan, unparseable text raises ValueError
to_float(cell) == IF cell = BadText THEN Raised ELSE cell

\* x >= y and x < y on floats: every comparison with nan is False
FloatGE(x, y) == x # NanDuration /\ y # NanDuration /\ x >= y
FloatLT(x, y) == x # NanDuration /\ y # NanDuration /\ x < y

\* truth value of `matched`: None and the empty str are falsy
Truthy(m) == m # None /\ m # <<>>

(***************************************************************************)
(* load_roster_data                                                        *)
(***************************************************************************)
\* df['First Name'] + ' ' + df['Last Name']: nan where either cell is nan
FullNameOf(row) ==
    IF row.first = NaN \/ row.last = NaN THEN NaN
    ELSE row.first \o <<32>> \o row.last

load_roster_data ==
    /\ pc = "load"
    /\ full_name' = [k \in 1..Len(roster_rows) |-> FullNameOf(roster_rows[k])]
    /\ status' = [k \in 1..Len(roster_rows) |-> "Unclassified"]
    /\ pc' = "process"
    /\ UNCHANGED <<zoom_df, roster_rows, threshold, error, i, matched,
                   matched_duration, unmatched_attendees, report,
                   prev_status, prev_report>>

(***************************************************************************)
(* process_attendance: one iteration of `for _, row in zoom_df.iterrows()` *)
(***************************************************************************)
DictSet(d, key, value) ==
    [n \in DOMAIN d \cup {key} |-> IF n = key THEN value ELSE d[n]]

process_row ==
    /\ pc = "process"
    /\ i < Len(zoom_df)
    /\ LET row       == zoom_df[i + 1]
           zoom_name == row.name
           duration  == to_float(row.duration)
           m         == match_student(zoom_name, full_name, threshold)
       IN  IF duration = Raised
           THEN /\ pc' = "failed"
                /\ error' = "ValueError"
                /\ UNCHANGED <<i, matched, matched_duration, unmatched_attendees>>
           ELSE IF m.raised
           THEN /\ pc' = "failed"
                /\ error' = "TypeError"
                /\ UNCHANGED <<i, matched, matched_duration, unmatched_attendees>>
           ELSE /\ matched' = m.value
                /\ i' = i + 1
                /\ IF Truthy(m.value) /\ FloatGE(duration, ATTENDANCE_THRESHOLD)
                   THEN /\ matched_duration' = DictSet(matched_duration, m.value, duration)
                        /\ UNCHANGED unmatched_attendees
                   ELSE IF Truthy(m.value) /\ FloatLT(duration, ATTENDANCE_THRESHOLD)
                   THEN /\ matched_duration' = DictSet(matched_duration, m.value, duration)
                        /\ UNCHANGED unmatched_attendees
                   ELSE /\ unmatched_attendees' = Append(unmatched_attendees, zoom_name)
                        /\ UNCHANGED matched_duration
                /\ UNCHANGED <<pc, error>>
    /\ UNCHANGED <<zoom_df, roster_rows, threshold, full_name, status, report,
                   prev_status, prev_report>>

(***************************************************************************)
(* write_unmatched_attendees                                               *)
(***************************************************************************)
\* insertion of x behind every element whose key is not greater: the stable
\* order of sorted(unmatched, key=str.lower)
RECURSIVE InsertByLower(_, _)
InsertByLower(sorted, x) ==
    IF sorted = <<>> THEN <<x>>
    ELSE IF StrLess(str_lower(x), str_lower(Head(sorted))) THEN <<x>> \o sorted
    ELSE <<Head(sorted)>> \o InsertByLower(Tail(sorted), x)

\* sorted(unmatched) without key=str.lower
unmatched_sorted_no_key(unmatched) == SortedPlain(unmatched)

RECURSIVE unmatched_sorted(_)
unmatched_sorted(unmatched) ==
    IF unmatched = <<>> THEN <<>>
    ELSE InsertByLower(unmatched_sorted(SubSeq(unmatched, 1, Len(unmatched) - 1)),
                       unmatched[Len(unmatched)])

\* process_attendance returns and main() writes the report
write_unmatched_attendees ==
    /\ pc = "process"
    /\ i = Len(zoom_df)
    /\ report' = unmatched_sorted(unmatched_attendees)
    /\ pc' = "update"
    /\ UNCHANGED <<zoom_df, roster_rows, threshold, error, full_name, status, i,
                   matched, matched_duration, unmatched_attendees,
                   prev_status, prev_report>>

(***************************************************************************)
(* update_attendance_status                                                *)
(***************************************************************************)
\* StatusFor with `total_duration > threshold`
StatusForStrict(roster_name, durations, t) ==
    IF roster_name \in DOMAIN durations
    THEN IF durations[roster_name] # NanDuration /\ durations[roster_name] > t
         THEN "Successful" ELSE "Unsuccessful"
    ELSE "No Show"

StatusFor(roster_name, durations, t) ==
    IF roster_name \in DOMAIN durations
    THEN IF FloatGE(durations[roster_name], t) THEN "Successful" ELSE "Unsuccessful"
    ELSE "No Show"

\* the loop without its else branch: a row with no match keeps its status
RECURSIVE UpdateFromMatchedOnly(_, _, _, _, _)
UpdateFromMatchedOnly(col, names, durations, t, k) ==
    IF k > Len(names) THEN col
    ELSE IF names[k] \in DOMAIN durations
         THEN UpdateFromMatchedOnly([col EXCEPT ![k] = StatusFor(names[k], durations, t)],
                                    names, durations, t, k + 1)
         ELSE UpdateFromMatchedOnly(col, names, durations, t, k + 1)

\* `for idx, row in roster_df.iterrows()` from row k on
RECURSIVE UpdateFrom(_, _, _, _, _)
UpdateFrom(col, names, durations, t, k) ==
    IF k > Len(names) THEN col
    ELSE UpdateFrom([col EXCEPT ![k] = StatusFor(names[k], durations, t)],
                    names, durations, t, k + 1)

update_attendance_status ==
    /\ pc = "update"
    /\ status' = UpdateFrom(status, full_name, matched_duration, ATTENDANCE_THRESHOLD, 1)
    /\ pc' = "done"
    /\ UNCHANGED <<zoom_df, roster_rows, threshold, error, full_name, i, matched,
                   matched_duration, unmatched_attendees, report,
                   prev_status, prev_report>>

(***************************************************************************)
(* main() run again on the same files with the ZOOM rows in another order; *)
(* the statuses and the report of the first run are kept for comparison.   *)
(***************************************************************************)
NoPrev == <<"none">>

rerun_reordered ==
    /\ pc = "done"
    /\ prev_status = NoPrev
    /\ \E z \in Reorderings(zoom_df) :
          /\ z # zoom_df
          /\ zoom_df' = z
    /\ prev_status' = status
    /\ prev_report' = report
    /\ pc' = "load"
    /\ full_name' = <<>>
    /\ status' = <<>>
    /\ i' = 0
    /\ matched' = None
    /\ matched_duration' = <<>>
    /\ unmatched_attendees' = <<>>
    /\ report' = <<>>
    /\ UNCHANGED <<roster_rows, threshold, error>>

Init ==
    /\ zoom_df \in SeqsUpTo(ZoomRow, MaxZoom)
    /\ roster_rows \in SeqsUpTo(RosterRow, MaxRoster)
    /\ threshold \in MatchThresholds
    /\ pc = "load"
    /\ error = ""
    /\ full_name = <<>>
    /\ status = <<>>
    /\ i = 0
    /\ matched = None
    /\ matched_duration = <<>>
    /\ unmatched_attendees = <<>>
    /\ report = <<>>
    /\ prev_status = NoPrev
    /\ prev_report = NoPrev

Next ==
    \/ load_roster_data
    \/ process_row
    \/ write_unmatched_attendees
    \/ update_attendance_status
    \/ rerun_reordered

Spec == Init /\ [][Next]_vars

(***************************************************************************)
(* Vocabulary of the properties, stated from the scorer alone.             *)
(***************************************************************************)
\* the roster rows extractOne scores: those whose Full Name is a str
Candidates == {k \in 1..Len(full_name) : ~is_none(full_name[k])}

\* token_sort_ratio of ZOOM name q against the Full Name of roster row k
ScoreOfRow(q, k) == ScoreTable[q][full_name[k]]

\* the rows no other row outscores
BestRows(q) ==
    LET sc == [k \in Candidates |-> ScoreOfRow(q, k)]
    IN  {k \in Candidates : \A j \in Candidates : ScoreGE(sc[k], sc[j])}

\* the best score reaches the threshold
Accepted(q) == \E k \in Candidates : ScoreAtLeast(ScoreOfRow(q, k), threshold)

FirstBestRow(q) ==
    LET best == BestRows(q)
    IN  CHOOSE k \in best : \A j \in best : k <= j

\* the roster name a ZOOM name matches, None when the best score is too low
MatchOf(q) == IF Accepted(q) THEN full_name[FirstBestRow(q)] ELSE None

Range(xs) == {xs[k] : k \in 1..Len(xs)}

LoopDone == pc \in {"update", "done"}

Statuses == {"Successful", "Unsuccessful", "No Show"}

MissingCell(k) == roster_rows[k].first = NaN \/ roster_rows[k].last = NaN

\* the ZOOM rows that match roster name n
RowsMatching(n) == {k \in 1..Len(zoom_df) : MatchOf(zoom_df[k].name) = n}

LastRowMatching(n) == CHOOSE k \in RowsMatching(n) : \A j \in RowsMatching(n) : j <= k

\* no two ZOOM rows match the same roster name
NoSharedMatch ==
    \A a, b \in 1..Len(zoom_df) :
        (a # b /\ MatchOf(zoom_df[a].name) # None)
            => MatchOf(zoom_df[a].name) # MatchOf(zoom_df[b].name)

Count(xs, x) == Cardinality({k \in 1..Len(xs) : xs[k] = x})

(***************************************************************************)
(* C1  update_attendance_status sets each row's status from its Full Name: *)
(* "No Show" when the name is no key of matched_duration, "Successful"     *)
(* when the stored duration is >= the attendance threshold (equality       *)
(* included), "Unsuccessful" when it is below.                             *)
(***************************************************************************)
C1_Classify ==
    pc = "done" =>
        \A k \in 1..Len(full_name) :
            /\ full_name[k] \notin DOMAIN matched_duration => status[k] = "No Show"
            /\ (full_name[k] \in DOMAIN matched_duration
                /\ matched_duration[full_name[k]] >= ATTENDANCE_THRESHOLD)
                    => status[k] = "Successful"
            /\ (full_name[k] \in DOMAIN matched_duration
                /\ matched_duration[full_name[k]] < ATTENDANCE_THRESHOLD)
                    => status[k] = "Unsuccessful"

C1_Witness ==
    /\ pc = "done"
    /\ \E k \in 1..Len(full_name) :
          /\ full_name[k] \in DOMAIN matched_duration
          /\ matched_duration[full_name[k]] = ATTENDANCE_THRESHOLD
          /\ status[k] = "Successful"
    /\ \E k \in 1..Len(full_name) :
          /\ full_name[k] \in DOMAIN matched_duration
          /\ matched_duration[full_name[k]] = ATTENDANCE_THRESHOLD - 1
          /\ status[k] = "Unsuccessful"

(***************************************************************************)
(* C2  After a complete run every roster row carries exactly one status of *)
(* Successful, Unsuccessful, No Show: no row is skipped and none keeps its *)
(* initial value.                                                          *)
(***************************************************************************)
C2_Totality ==
    pc = "done" =>
        /\ Len(status) = Len(roster_rows)
        /\ \A k \in 1..Len(roster_rows) : status[k] \in Statuses

C2_Witness ==
    /\ pc = "done"
    /\ Len(roster_rows) >= 2
    /\ Len(zoom_df) >= 1
    /\ \E k \in 1..Len(status) : status[k] = "No Show"
    /\ \E k \in 1..Len(status) : status[k] # "No Show"

(***************************************************************************)
(* C3  When several ZOOM rows match the same roster name, the duration     *)
(* stored for that name after process_attendance is the duration of the    *)
(* last such row in input order (a missing duration counting as 0).        *)
(***************************************************************************)
C3_LastWriteWins ==
    LoopDone =>
        \A n \in Range(full_name) :
            Cardinality(RowsMatching(n)) >= 2 =>
                /\ n \in DOMAIN matched_duration
                /\ matched_duration[n] =
                       (IF zoom_df[LastRowMatching(n)].duration = NanDuration THEN 0
                        ELSE zoom_df[LastRowMatching(n)].duration)

\* on a log whose duration cells all hold numbers the stored duration is that
\* of the last matching row: the overwrite itself is last-write-wins
LastWriteWinsOnNumericLogs ==
    (LoopDone /\ \A k \in 1..Len(zoom_df) : zoom_df[k].duration # NanDuration) =>
        \A n \in Range(full_name) :
            RowsMatching(n) # {} =>
                /\ n \in DOMAIN matched_duration
                /\ matched_duration[n] = zoom_df[LastRowMatching(n)].duration

(***************************************************************************)
(* C4  match_student returns a best-scoring roster name whenever the best  *)
(* score is >= the threshold, equality included, and None whenever the     *)
(* best score is below the threshold.                                      *)
(***************************************************************************)
C4_MatchBoundary ==
    (pc # "failed" /\ i >= 1) =>
        LET q == zoom_df[i].name
        IN  /\ Accepted(q) => matched \in {full_name[k] : k \in BestRows(q)}
            /\ ~Accepted(q) => matched = None

\* the last row scored exactly the threshold and was accepted
C4_Witness ==
    /\ pc # "failed"
    /\ i >= 1
    /\ matched # None
    /\ \A k \in BestRows(zoom_df[i].name) :
          ScoreOfRow(zoom_df[i].name, k).num = threshold * ScoreOfRow(zoom_df[i].name, k).den

(***************************************************************************)
(* C5  After process_attendance the unmatched list holds exactly the ZOOM  *)
(* names whose best score is below the match threshold, whatever the       *)
(* duration of their rows.                                                 *)
(***************************************************************************)
C5_UnmatchedExact ==
    LoopDone =>
        Range(unmatched_attendees) =
            {zoom_df[k].name : k \in {j \in 1..Len(zoom_df) : ~Accepted(zoom_df[j].name)}}

\* the unmatched list is, in input order, the names of the rows that matched
\* nothing or whose duration is nan
UnmatchedIsBelowThresholdOrNan ==
    LoopDone =>
        unmatched_attendees =
            LET idx == {k \in 1..Len(zoom_df) :
                           ~Accepted(zoom_df[k].name) \/ zoom_df[k].duration = NanDuration}
                F[k \in 0..Len(zoom_df)] ==
                    IF k = 0 THEN <<>>
                    ELSE IF k \in idx THEN Append(F[k - 1], zoom_df[k].name) ELSE F[k - 1]
            IN  F[Len(zoom_df)]

(***************************************************************************)
(* C6  A ZOOM row whose duration is missing or unparseable counts as       *)
(* duration 0 and never fails the run: when its name matches, the roster   *)
(* name is stored with 0 and the row is not put in the unmatched list.     *)
(***************************************************************************)
C6_MissingDurationIsZero ==
    /\ error # "ValueError"
    /\ (pc # "failed" /\ i >= 1 /\ zoom_df[i].duration = NanDuration
        /\ Accepted(zoom_df[i].name)) =>
            /\ MatchOf(zoom_df[i].name) \in DOMAIN matched_duration
            /\ matched_duration[MatchOf(zoom_df[i].name)] = 0
            /\ zoom_df[i].name \notin Range(unmatched_attendees)

(***************************************************************************)
(* C7  match_student over an empty candidate list returns None and never   *)
(* raises, so process_attendance over an empty roster completes with       *)
(* every ZOOM name in the unmatched list.                                  *)
(***************************************************************************)
C7_EmptyRosterNoMatch ==
    roster_rows = <<>> =>
        /\ pc # "failed"
        /\ LoopDone => unmatched_attendees = [k \in 1..Len(zoom_df) |-> zoom_df[k].name]

(***************************************************************************)
(* C8 as stated: the report lines are in case-insensitive ascending order  *)
(* and two runs over reordered rows write the same lines.  It is stated    *)
(* for logs whose duration cells all hold numbers, where the unmatched     *)
(* names are exactly the names scoring below the threshold.                *)
(***************************************************************************)
C8_OrderIndependent ==
    (\A k \in 1..Len(zoom_df) : zoom_df[k].duration \notin {NanDuration, BadText}) =>
        /\ LoopDone =>
              \A a, b \in 1..Len(report) :
                  a < b => ~StrLess(str_lower(report[b]), str_lower(report[a]))
        /\ (pc = "done" /\ prev_report # NoPrev) => report = prev_report

(***************************************************************************)
(* C8 amended: the report lines are the unmatched names in case-           *)
(* insensitive ascending order, names that differ only in letter case      *)
(* keeping their input order; two runs over reordered rows write the same  *)
(* lines when no two different unmatched names differ only in case.        *)
(***************************************************************************)
C8_StableCaseInsensitive ==
    /\ LoopDone =>
          /\ Len(report) = Len(unmatched_attendees)
          /\ \A x \in Range(unmatched_attendees) \cup Range(report) :
                Count(report, x) = Count(unmatched_attendees, x)
          /\ \A a, b \in 1..Len(report) :
                a < b => ~StrLess(str_lower(report[b]), str_lower(report[a]))
          /\ \A x \in Range(report) :
                SelectSeq(report, LAMBDA y : str_lower(y) = str_lower(x))
                    = SelectSeq(unmatched_attendees, LAMBDA y : str_lower(y) = str_lower(x))
    /\ (/\ pc = "done"
        /\ prev_report # NoPrev
        /\ \A x, y \in Range(report) : str_lower(x) = str_lower(y) => x = y)
            => report = prev_report

\* a second run whose rows came in another order wrote the same sorted lines
C8_Witness ==
    /\ pc = "done"
    /\ prev_report # NoPrev
    /\ Len(report) >= 2
    /\ report # unmatched_attendees
    /\ report = prev_report
    /\ \A x, y \in Range(report) : str_lower(x) = str_lower(y) => x = y

(***************************************************************************)
(* C9  Equally scoring roster candidates resolve to the first in roster    *)
(* order, and when no two ZOOM rows match the same roster name a run over  *)
(* reordered ZOOM rows gives every roster row the same status.             *)
(***************************************************************************)
C9_Determinism ==
    /\ (pc # "failed" /\ i >= 1) => matched = MatchOf(zoom_df[i].name)
    /\ (pc = "done" /\ prev_status # NoPrev /\ NoSharedMatch) => status = prev_status

\* a rerun in which one row met a tie between two roster names and two rows
\* matched different names
C9_Witness ==
    /\ pc = "done"
    /\ prev_status # NoPrev
    /\ NoSharedMatch
    /\ \E a \in 1..Len(zoom_df) : Cardinality({full_name[k] : k \in BestRows(zoom_df[a].name)}) >= 2
    /\ \E k \in 1..Len(status) : status[k] = "Successful"
    /\ \E k \in 1..Len(status) : status[k] = "Unsuccessful"

(***************************************************************************)
(* C10  A roster row that lacks its first or last name stops the run with  *)
(* MissingFieldError: it is never carried through and classified.          *)
(***************************************************************************)
C10_MissingNameNeverClassified ==
    \A k \in 1..Len(status) : MissingCell(k) => status[k] \notin Statuses

====
